---- MODULE Spec2Model ----
(***************************************************************************)
(* Plan / Budget / Receipt engine of oops402.                              *)
(*                                                                         *)
(* One plan row (oops402_plans) and its receipt rows                       *)
(* (oops402_plan_receipts) live in the store.  Every exported service      *)
(* function is an async function: each supabase call is one atomic store   *)
(* operation, and between two awaits of one call any other call may run.   *)
(* A call is therefore modelled as a small process (pc, op, arg, snap,     *)
(* loc, res) whose steps are its store operations; the synchronous code    *)
(* between two awaits belongs to the step of the await that precedes it.   *)
(*                                                                         *)
(* Representation.                                                         *)
(*  - an optional value (null / undefined in the source) is <<>> when      *)
(*    absent and <<v>> when present;                                       *)
(*  - a decimal string is the integer number of tenths of a USDC it        *)
(*    denotes ("0.100000" is 1); a double is <<n, d>>: the double nearest  *)
(*    to n tenths, moved d ulps up (1) or down (-1), as IEEE-754 addition  *)
(*    of the two parsed operands leaves it;                                *)
(*  - a URL and a URL pattern are sequences of characters; a tag is the    *)
(*    code of its string, so that Array.prototype.sort has an order;       *)
(*  - a SHA-256 digest is represented by the canonical string it was       *)
(*    computed over (the digest is collision free for the model's values). *)
(***************************************************************************)
EXTENDS Integers, Sequences, FiniteSets, TLC

VARIABLES plan, receipts, clock, started, pc, op, arg, snap, loc, res

vars == <<plan, receipts, clock, started, pc, op, arg, snap, loc, res>>

(***************************************************************************)
(* Bounds and input sets                                                   *)
(***************************************************************************)
\* At most MaxReceipts receipt rows are stored, and at most MaxCalls calls are
\* made in one behaviour.
MaxReceipts == 2
MaxCalls == 4

\* The slots of the calls in progress: two calls may overlap.
Calls == {1, 2}

Owner == "u1"
Users == {"u1", "u2"}

None == <<>>
Some(v) == <<v>>

UrlA == <<"a", "b">>
UrlD == <<"a", "d">>
UrlX == <<"x">>

Step1 == [id |-> "s1", url |-> UrlA, max_cost_usdc |-> Some(2)]
Step2 == [id |-> "s2", url |-> UrlA, max_cost_usdc |-> None]

Policy1 == [allowlist |-> << <<"a", "*">> >>, denylist |-> Some(<< UrlD >>),
            require_allowlist |-> TRUE]

Budget1 == [not_to_exceed_usdc |-> 3, approval_threshold_usdc |-> Some(2),
            per_tool_caps_usdc |-> None, per_step_default_cap_usdc |-> None]
Budget2 == [not_to_exceed_usdc |-> 1, approval_threshold_usdc |-> None,
            per_tool_caps_usdc |-> Some(<< << <<"a", "*">>, 2 >> >>),
            per_step_default_cap_usdc |-> Some(1)]

\* The PlanInput the plan was created from.
PlanInput1 == [title |-> "t1", objective |-> "o1", scope |-> None,
               steps |-> <<Step1, Step2>>, tool_policy |-> Policy1,
               budget |-> Budget1, tags |-> Some(<<2, 1>>),
               metadata |-> None]

NoUpdate == [title |-> None, objective |-> None, scope |-> None, steps |-> None,
             tool_policy |-> None, budget |-> None, tags |-> None,
             metadata |-> None]

\* The PlanUpdate patches callers send.
PlanUpdates ==
  { [NoUpdate EXCEPT !.title = Some("t2")],
    [NoUpdate EXCEPT !.budget = Some(Budget2)],
    [NoUpdate EXCEPT !.steps = Some(<<Step1>>), !.budget = Some(Budget2)],
    [NoUpdate EXCEPT !.steps = Some(<<Step1>>)] }

\* The ReceiptInputs callers send.
RI(s, u, a, ref) == [step_id |-> s, url |-> u, amount |-> a, payment_reference |-> ref]

ReceiptInputs ==
  { RI("s1", UrlA, 1, Some("r1")), RI("s1", UrlA, 2, Some("r1")),
    RI("s2", UrlA, 1, None), RI("s2", UrlA, 2, None),
    RI("s3", UrlA, 1, None), RI("s1", UrlX, 1, None),
    RI("s1", UrlA, 3, None), RI("s2", UrlA, 3, None),
    RI("s1", UrlX, 3, Some("r1")) }

(***************************************************************************)
(* Decimal strings and doubles                                             *)
(***************************************************************************)
\* Pairs <<a, b>> of tenths whose IEEE-754 sum is above / below the double
\* nearest to a + b tenths (0.1 + 0.2 is 0.30000000000000004).
AddRoundsUp ==
  { <<-6, -3>>, <<-6, 2>>, <<-6, 4>>, <<-6, 5>>, <<-5, 4>>, <<-3, -6>>,
    <<-3, 1>>, <<-3, 2>>, <<-3, 4>>, <<-1, 4>>, <<1, -3>>, <<1, 2>>,
    <<2, -6>>, <<2, -3>>, <<2, 1>>, <<2, 4>>, <<4, -6>>, <<4, -5>>,
    <<4, -3>>, <<4, -1>>, <<4, 2>>, <<5, -6>> }
AddRoundsDown ==
  { <<-5, 6>>, <<-4, -2>>, <<-4, 1>>, <<-4, 3>>, <<-4, 5>>, <<-4, 6>>,
    <<-2, -4>>, <<-2, -1>>, <<-2, 3>>, <<-2, 6>>, <<-1, -2>>, <<-1, 3>>,
    <<1, -4>>, <<3, -4>>, <<3, -2>>, <<3, -1>>, <<3, 6>>, <<5, -4>>,
    <<6, -5>>, <<6, -4>>, <<6, -2>>, <<6, 3>> }

ParseFloat(s) == <<s, 0>>

FloatAdd(x, y) ==
  <<x[1] + y[1],
    IF <<x[1], y[1]>> \in AddRoundsUp THEN 1
    ELSE IF <<x[1], y[1]>> \in AddRoundsDown THEN -1 ELSE 0>>

FloatSub(x, y) == FloatAdd(x, <<0 - y[1], 0>>)

FloatGT(x, y) == x[1] > y[1] \/ (x[1] = y[1] /\ x[2] > y[2])

\* Number.prototype.toFixed(6): the deviation of a few ulps is rounded away.
ToFixed6(x) == x[1]

(***************************************************************************)
(* Budget Enforcer (budgetEnforcer.ts)                                     *)
(***************************************************************************)
\* A pattern read as a glob: its first '*', wherever it stands, matches the
\* rest of the URL.
MatchesPattern_Glob(url, pattern) ==
  \/ url = pattern
  \/ \E k \in DOMAIN pattern :
       /\ pattern[k] = "*"
       /\ \A j \in 1..(k - 1) : pattern[j] # "*"
       /\ Len(url) >= k - 1
       /\ SubSeq(url, 1, k - 1) = SubSeq(pattern, 1, k - 1)

MatchesPattern(url, pattern) ==
  \/ url = pattern
  \/ /\ Len(pattern) > 0
     /\ pattern[Len(pattern)] = "*"
     /\ Len(url) >= Len(pattern) - 1
     /\ SubSeq(url, 1, Len(pattern) - 1) = SubSeq(pattern, 1, Len(pattern) - 1)

AnyMatch(url, patterns) ==
  \E i \in DOMAIN patterns : MatchesPattern(url, patterns[i])

\* What a check yields: "ok", or the error it throws with the limit the error
\* reports (BudgetExceededError and ApprovalRequiredError carry one).
Passed == [code |-> "ok", limit |-> None]
Thrown(code, limit) == [code |-> code, limit |-> limit]

\* The denylist consulted whether or not the allowlist is required.
MatchToolAllowlist_DenyAlways(toolPolicy, toolUrl) ==
  IF toolPolicy.denylist # None /\ AnyMatch(toolUrl, toolPolicy.denylist[1])
    THEN Thrown("ToolNotAllowed", None)
  ELSE IF ~toolPolicy.require_allowlist THEN Passed
  ELSE IF AnyMatch(toolUrl, toolPolicy.allowlist) THEN Passed
  ELSE Thrown("ToolNotAllowed", None)

MatchToolAllowlist(toolPolicy, toolUrl) ==
  IF ~toolPolicy.require_allowlist THEN Passed
  ELSE IF toolPolicy.denylist # None /\ AnyMatch(toolUrl, toolPolicy.denylist[1])
    THEN Thrown("ToolNotAllowed", None)
  ELSE IF AnyMatch(toolUrl, toolPolicy.allowlist) THEN Passed
  ELSE Thrown("ToolNotAllowed", None)

\* The step's own max_cost, when set, standing in for the default cap.
CheckPerRequestLimit_StepCapOnly(budget, step, receipt) ==
  LET receiptAmount == ParseFloat(receipt.amount) IN
  IF step.max_cost_usdc # None
    THEN IF FloatGT(receiptAmount, ParseFloat(step.max_cost_usdc[1]))
           THEN Thrown("BudgetExceeded", step.max_cost_usdc) ELSE Passed
  ELSE IF budget.per_step_default_cap_usdc # None
     /\ FloatGT(receiptAmount, ParseFloat(budget.per_step_default_cap_usdc[1]))
    THEN Thrown("BudgetExceeded", budget.per_step_default_cap_usdc)
  ELSE Passed

CheckPerRequestLimit(budget, step, receipt) ==
  LET receiptAmount == ParseFloat(receipt.amount) IN
  IF step.max_cost_usdc # None
     /\ FloatGT(receiptAmount, ParseFloat(step.max_cost_usdc[1]))
    THEN Thrown("BudgetExceeded", step.max_cost_usdc)
  ELSE IF budget.per_step_default_cap_usdc # None
     /\ FloatGT(receiptAmount, ParseFloat(budget.per_step_default_cap_usdc[1]))
    THEN Thrown("BudgetExceeded", budget.per_step_default_cap_usdc)
  ELSE Passed

\* Every matching entry evaluated: the lowest matching cap decides.
CheckPerToolLimit_LowestCap(budget, receipt) ==
  IF budget.per_tool_caps_usdc = None THEN Passed
  ELSE LET caps == budget.per_tool_caps_usdc[1]
           hits == {i \in DOMAIN caps : MatchesPattern(receipt.url, caps[i][1])}
           over == {i \in hits : FloatGT(ParseFloat(receipt.amount),
                                          ParseFloat(caps[i][2]))}
       IN IF over = {} THEN Passed
          ELSE Thrown("BudgetExceeded",
                      Some(caps[CHOOSE i \in over : \A j \in over : i <= j][2]))

\* The first entry, in insertion order, whose pattern matches decides.
CheckPerToolLimit(budget, receipt) ==
  IF budget.per_tool_caps_usdc = None THEN Passed
  ELSE LET caps == budget.per_tool_caps_usdc[1]
           hits == {i \in DOMAIN caps : MatchesPattern(receipt.url, caps[i][1])}
       IN IF hits = {} THEN Passed
          ELSE LET first == CHOOSE i \in hits : \A j \in hits : i <= j
               IN IF FloatGT(ParseFloat(receipt.amount), ParseFloat(caps[first][2]))
                    THEN Thrown("BudgetExceeded", Some(caps[first][2]))
                  ELSE Passed

\* The total-budget check left out.
CheckTotalBudget_Skipped(p, receipt) == Passed

CheckTotalBudget(p, receipt) ==
  LET receiptAmount == ParseFloat(receipt.amount)
      currentTotal == ParseFloat(p.execution.spend.total_usdc)
      budgetLimit == ParseFloat(p.spec.budget.not_to_exceed_usdc)
  IN IF FloatGT(FloatAdd(currentTotal, receiptAmount), budgetLimit)
       THEN Thrown("BudgetExceeded", Some(p.spec.budget.not_to_exceed_usdc))
     ELSE Passed

\* The threshold compared with >=: an amount equal to it needs approval.
CheckApprovalThreshold_AtLeast(budget, receipt) ==
  IF budget.approval_threshold_usdc = None THEN Passed
  ELSE IF ~FloatGT(ParseFloat(budget.approval_threshold_usdc[1]),
                   ParseFloat(receipt.amount))
    THEN Thrown("ApprovalRequired", budget.approval_threshold_usdc)
  ELSE Passed

CheckApprovalThreshold(budget, receipt) ==
  IF budget.approval_threshold_usdc = None THEN Passed
  ELSE IF FloatGT(ParseFloat(receipt.amount),
                  ParseFloat(budget.approval_threshold_usdc[1]))
    THEN Thrown("ApprovalRequired", budget.approval_threshold_usdc)
  ELSE Passed

FindStep(steps, stepId) ==
  LET hits == {i \in DOMAIN steps : steps[i].id = stepId}
  IN IF hits = {} THEN None
     ELSE Some(steps[CHOOSE i \in hits : \A j \in hits : i <= j])

\* The step looked up before the tool policy is consulted.
ValidateBudgetRules_StepFirst(p, receipt) ==
  LET step == FindStep(p.spec.steps, receipt.step_id) IN
  IF step = None THEN Thrown("StepNotFound", None)
  ELSE IF MatchToolAllowlist(p.spec.tool_policy, receipt.url) # Passed
    THEN MatchToolAllowlist(p.spec.tool_policy, receipt.url)
  ELSE IF CheckPerRequestLimit(p.spec.budget, step[1], receipt) # Passed
    THEN CheckPerRequestLimit(p.spec.budget, step[1], receipt)
  ELSE IF CheckPerToolLimit(p.spec.budget, receipt) # Passed
    THEN CheckPerToolLimit(p.spec.budget, receipt)
  ELSE IF CheckTotalBudget(p, receipt) # Passed
    THEN CheckTotalBudget(p, receipt)
  ELSE CheckApprovalThreshold(p.spec.budget, receipt)

ValidateBudgetRules(p, receipt) ==
  LET step == FindStep(p.spec.steps, receipt.step_id) IN
  IF MatchToolAllowlist(p.spec.tool_policy, receipt.url) # Passed
    THEN MatchToolAllowlist(p.spec.tool_policy, receipt.url)
  ELSE IF step = None THEN Thrown("StepNotFound", None)
  ELSE IF CheckPerRequestLimit(p.spec.budget, step[1], receipt) # Passed
    THEN CheckPerRequestLimit(p.spec.budget, step[1], receipt)
  ELSE IF CheckPerToolLimit(p.spec.budget, receipt) # Passed
    THEN CheckPerToolLimit(p.spec.budget, receipt)
  ELSE IF CheckTotalBudget(p, receipt) # Passed
    THEN CheckTotalBudget(p, receipt)
  ELSE CheckApprovalThreshold(p.spec.budget, receipt)

BudgetErrors ==
  {"ToolNotAllowed", "StepNotFound", "BudgetExceeded", "ApprovalRequired"}

(***************************************************************************)
(* Plan hash (service.ts).                                                 *)
(***************************************************************************)
RECURSIVE SortTags(_)
SortTags(tags) ==
  IF tags = <<>> THEN <<>>
  ELSE LET m == CHOOSE i \in DOMAIN tags : \A j \in DOMAIN tags : tags[i] <= tags[j]
           rest == [k \in 1..(Len(tags) - 1) |-> IF k < m THEN tags[k] ELSE tags[k + 1]]
       IN <<tags[m]>> \o SortTags(rest)

\* The replacer of JSON.stringify is the array of the top-level keys, sorted:
\* a key is written, at every nesting level, only when it is one of them, and
\* in the array's order.
CanonicalKeys == <<"metadata", "objective", "spec", "tags", "title">>

\* An object is a sequence of <<key, value>> pairs in insertion order; the
\* result lists, for each key of the replacer in its order, the value written.
FilterKeys(obj) ==
  [k \in 1..Len(CanonicalKeys) |->
     LET hit == {i \in DOMAIN obj : obj[i][1] = CanonicalKeys[k]}
     IN IF hit = {} THEN None ELSE Some(obj[CHOOSE i \in hit : TRUE][2])]

\* plan.spec has the keys scope, steps, tool_policy and budget, none of which
\* is in the replacer array: it is written as "{}".
CanonicalizePlan(p) ==
  [metadata |-> FilterKeys(p.metadata),
   objective |-> p.objective,
   spec |-> FilterKeys(<< <<"scope", p.spec.scope>>, <<"steps", p.spec.steps>>,
                          <<"tool_policy", p.spec.tool_policy>>,
                          <<"budget", p.spec.budget>> >>),
   tags |-> SortTags(p.tags),
   title |-> p.title]

ComputePlanHash(p) == CanonicalizePlan(p)

(***************************************************************************)
(* Plan Store (service.ts): rows and the values written to them            *)
(***************************************************************************)
CreatePlan(userId, planInput) ==
  [owner_id |-> userId,
   title |-> planInput.title,
   objective |-> planInput.objective,
   status |-> "draft",
   spec |-> [scope |-> IF planInput.scope = None THEN <<>> ELSE planInput.scope[1],
             steps |-> planInput.steps,
             tool_policy |-> planInput.tool_policy,
             budget |-> planInput.budget],
   plan_hash |-> None,
   execution |-> [active_step_id |-> None,
                  progress |-> [completed_steps |-> <<>>, failed_steps |-> <<>>],
                  spend |-> [total_usdc |-> 0,
                             remaining_usdc |-> planInput.budget.not_to_exceed_usdc]],
   integrity |-> [plan_hash |-> None, approved_at |-> None, approved_by |-> None],
   tags |-> IF planInput.tags = None THEN <<>> ELSE planInput.tags[1],
   metadata |-> IF planInput.metadata = None THEN <<>> ELSE planInput.metadata[1]]

\* updateData of updatePlan: each of scope, steps, tool_policy and budget
\* assigns updateData.spec afresh from the plan that was read, so the last
\* one provided decides the spec that is written.
UpdateData(p, updates) ==
  [title |-> updates.title,
   objective |-> updates.objective,
   spec |-> IF updates.budget # None
              THEN Some([p.spec EXCEPT !.budget = updates.budget[1]])
            ELSE IF updates.tool_policy # None
              THEN Some([p.spec EXCEPT !.tool_policy = updates.tool_policy[1]])
            ELSE IF updates.steps # None
              THEN Some([p.spec EXCEPT !.steps = updates.steps[1]])
            ELSE IF updates.scope # None
              THEN Some([p.spec EXCEPT !.scope = updates.scope[1]])
            ELSE None,
   execution |-> IF updates.budget # None
                   THEN Some([p.execution EXCEPT !.spend.remaining_usdc =
                                updates.budget[1].not_to_exceed_usdc])
                 ELSE None,
   tags |-> updates.tags,
   metadata |-> updates.metadata]

\* UPDATE oops402_plans SET <the columns present in data>.
UpdateRow(row, data) ==
  [row EXCEPT
     !.title = IF data.title = None THEN @ ELSE data.title[1],
     !.objective = IF data.objective = None THEN @ ELSE data.objective[1],
     !.spec = IF data.spec = None THEN @ ELSE data.spec[1],
     !.execution = IF data.execution = None THEN @ ELSE data.execution[1],
     !.tags = IF data.tags = None THEN @ ELSE data.tags[1],
     !.metadata = IF data.metadata = None THEN @ ELSE data.metadata[1]]

\* The approval stored as the status approved, the start left for later.
ApproveRow_StatusApproved(row, p, userId, now) ==
  [row EXCEPT
     !.status = "approved",
     !.plan_hash = Some(ComputePlanHash(p)),
     !.integrity = [plan_hash |-> Some(ComputePlanHash(p)),
                    approved_at |-> Some(now),
                    approved_by |-> Some(userId)],
     !.execution = [p.execution EXCEPT !.active_step_id =
                      IF Len(p.spec.steps) > 0 THEN Some(p.spec.steps[1].id)
                      ELSE None]]

\* The approval written without the integrity column.
ApproveRow_NoIntegrity(row, p, userId, now) ==
  [row EXCEPT
     !.status = "running",
     !.plan_hash = Some(ComputePlanHash(p)),
     !.execution = [p.execution EXCEPT !.active_step_id =
                      IF Len(p.spec.steps) > 0 THEN Some(p.spec.steps[1].id)
                      ELSE None]]

\* The columns approveAndStartPlan writes, from the plan p it read at time now.
ApproveRow(row, p, userId, now) ==
  [row EXCEPT
     !.status = "running",
     !.plan_hash = Some(ComputePlanHash(p)),
     !.integrity = [plan_hash |-> Some(ComputePlanHash(p)),
                    approved_at |-> Some(now),
                    approved_by |-> Some(userId)],
     !.execution = [p.execution EXCEPT !.active_step_id =
                      IF Len(p.spec.steps) > 0 THEN Some(p.spec.steps[1].id)
                      ELSE None]]

\* The execution column updatePlanSpend writes.
SpendExecution(totalUsdc, remainingUsdc) ==
  [active_step_id |-> None,
   progress |-> [completed_steps |-> <<>>, failed_steps |-> <<>>],
   spend |-> [total_usdc |-> totalUsdc, remaining_usdc |-> remainingUsdc]]

\* Rows of oops402_plan_receipts matching (step_id, x402->>payment_reference).
ReceiptsByPaymentReference(stepId, paymentReference) ==
  {i \in DOMAIN receipts :
     /\ receipts[i].step_id = stepId
     /\ receipts[i].payment_reference = Some(paymentReference)}

\* The store without the unique index: no insert is rejected.
UniqueViolation_NoIndex(r) == FALSE

\* The unique index unique_plan_receipt rejects the insert of r (error 23505).
UniqueViolation(r) ==
  /\ r.payment_reference # None
  /\ ReceiptsByPaymentReference(r.step_id, r.payment_reference[1]) # {}

ReceiptRow(r) ==
  [id |-> Len(receipts) + 1, step_id |-> r.step_id, url |-> r.url,
   amount |-> r.amount, payment_reference |-> r.payment_reference]

AllStepsHaveReceipts(p, receiptStepIds) ==
  \A i \in DOMAIN p.spec.steps : p.spec.steps[i].id \in receiptStepIds

(***************************************************************************)
(* Calls                                                                   *)
(***************************************************************************)
NoArg == [user |-> "", input |-> None]
NoLoc == [now |-> 0, newTotal |-> 0, remaining |-> 0, row |-> None,
          spent |-> FALSE, acPlan |-> None, failed |-> FALSE]
NoRes == [kind |-> "", val |-> None]

Ok(v) == [kind |-> "ok", val |-> Some(v)]
Err(code) == [kind |-> code, val |-> None]

Init ==
  /\ plan = CreatePlan(Owner, PlanInput1)
  /\ receipts = <<>>
  /\ clock = 0
  /\ started = 0
  /\ pc = [c \in Calls |-> "idle"]
  /\ op = [c \in Calls |-> ""]
  /\ arg = [c \in Calls |-> NoArg]
  /\ snap = [c \in Calls |-> None]
  /\ loc = [c \in Calls |-> NoLoc]
  /\ res = [c \in Calls |-> NoRes]

\* A new call takes the lowest free slot (the slots are interchangeable).
\* A result is taken by its caller before any call goes on (taking it touches
\* nothing the other calls read).
NoResultPending == \A d \in Calls : pc[d] # "done"

At(c, label) == pc[c] = label /\ NoResultPending

CanStart(c) ==
  /\ At(c, "idle")
  /\ started < MaxCalls
  /\ \A d \in Calls : d < c => pc[d] # "idle"

\* The call c ends with result r.
Finish(c, r) ==
  /\ pc' = [pc EXCEPT ![c] = "done"]
  /\ res' = [res EXCEPT ![c] = r]

Goto(c, label) ==
  /\ pc' = [pc EXCEPT ![c] = label]
  /\ UNCHANGED res

Begin(c, name, u, input) ==
  /\ started' = started + 1
  /\ op' = [op EXCEPT ![c] = name]
  /\ arg' = [arg EXCEPT ![c] = [user |-> u, input |-> input]]

\* The row returned whoever asks for it.
GetPlan_AnyUser(userId) == Some(plan)

\* getPlan: the row is returned only to its owner.
GetPlan(userId) == IF plan.owner_id = userId THEN Some(plan) ELSE None

(***************************************************************************)
(* getPlan and getReceipts, called by the owner's client                   *)
(***************************************************************************)
GetPlanCall(c, u) ==
  /\ CanStart(c)
  /\ Begin(c, "getPlan", u, None)
  /\ snap' = [snap EXCEPT ![c] = GetPlan(u)]
  /\ IF GetPlan(u) = None THEN Finish(c, Err("PlanNotFound"))
     ELSE Finish(c, Ok(plan))
  /\ UNCHANGED <<plan, receipts, clock, loc>>

\* getPlan verifies the access (receiptService.ts line 116).
GetReceipts_Get(c, u) ==
  /\ CanStart(c)
  /\ Begin(c, "getReceipts", u, None)
  /\ snap' = [snap EXCEPT ![c] = GetPlan(u)]
  /\ IF GetPlan(u) = None THEN Finish(c, Err("PlanNotFound"))
     ELSE Goto(c, "gr_select")
  /\ UNCHANGED <<plan, receipts, clock, loc>>

\* The rows of the plan, in the order they were created (lines 118-137).
GetReceipts_Select(c) ==
  /\ At(c, "gr_select")
  /\ Finish(c, Ok(receipts))
  /\ UNCHANGED <<started, plan, receipts, clock, op, arg, snap, loc>>

(***************************************************************************)
(* updatePlan                                                              *)
(***************************************************************************)
\* updatePlan without the status check.
UpdatePlan_Get_NoLock(c, u, updates) ==
  /\ CanStart(c)
  /\ Begin(c, "updatePlan", u, Some(updates))
  /\ snap' = [snap EXCEPT ![c] = GetPlan(u)]
  /\ IF GetPlan(u) = None THEN Finish(c, Err("PlanNotFound"))
     ELSE Goto(c, "up_write")
  /\ UNCHANGED <<plan, receipts, clock, loc>>

\* getPlan and the status check (lines 190-195).
UpdatePlan_Get(c, u, updates) ==
  /\ CanStart(c)
  /\ Begin(c, "updatePlan", u, Some(updates))
  /\ snap' = [snap EXCEPT ![c] = GetPlan(u)]
  /\ IF GetPlan(u) = None THEN Finish(c, Err("PlanNotFound"))
     ELSE IF plan.status # "draft" THEN Finish(c, Err("PlanLocked"))
     ELSE Goto(c, "up_write")
  /\ UNCHANGED <<plan, receipts, clock, loc>>

\* The update, built from the plan that was read (lines 197-246).
UpdatePlan_Write(c) ==
  /\ At(c, "up_write")
  /\ plan' = UpdateRow(plan, UpdateData(snap[c][1], arg[c].input[1]))
  /\ Finish(c, Ok(plan'))
  /\ UNCHANGED <<started, receipts, clock, op, arg, snap, loc>>

(***************************************************************************)
(* approveAndStartPlan                                                     *)
(***************************************************************************)
\* approveAndStartPlan without the check for an already running plan.
Approve_Get_NoIdempotency(c, u) ==
  /\ CanStart(c)
  /\ Begin(c, "approveAndStartPlan", u, None)
  /\ snap' = [snap EXCEPT ![c] = GetPlan(u)]
  /\ IF GetPlan(u) = None
       THEN Finish(c, Err("PlanNotFound")) /\ UNCHANGED <<clock, loc>>
     ELSE IF plan.status \notin {"draft", "approved", "running"}
       THEN Finish(c, Err("InvalidTransition")) /\ UNCHANGED <<clock, loc>>
     ELSE /\ Goto(c, "ap_write")
          /\ clock' = clock + 1
          /\ loc' = [loc EXCEPT ![c].now = clock + 1]
  /\ UNCHANGED <<plan, receipts>>

\* getPlan, the idempotency and transition checks, the hash and the
\* timestamp (lines 261-286).
Approve_Get(c, u) ==
  /\ CanStart(c)
  /\ Begin(c, "approveAndStartPlan", u, None)
  /\ snap' = [snap EXCEPT ![c] = GetPlan(u)]
  /\ IF GetPlan(u) = None
       THEN Finish(c, Err("PlanNotFound")) /\ UNCHANGED <<clock, loc>>
     ELSE IF plan.status \in {"approved", "running"}
       THEN Finish(c, Ok(plan)) /\ UNCHANGED <<clock, loc>>
     ELSE IF plan.status # "draft"
       THEN Finish(c, Err("InvalidTransition")) /\ UNCHANGED <<clock, loc>>
     ELSE /\ Goto(c, "ap_write")
          /\ clock' = clock + 1
          /\ loc' = [loc EXCEPT ![c].now = clock + 1]
  /\ UNCHANGED <<plan, receipts>>

\* The update (lines 288-306).
Approve_Write(c) ==
  /\ At(c, "ap_write")
  /\ plan' = ApproveRow(plan, snap[c][1], arg[c].user, loc[c].now)
  /\ Finish(c, Ok(plan'))
  /\ UNCHANGED <<started, receipts, clock, op, arg, snap, loc>>

(***************************************************************************)
(* cancelPlan                                                              *)
(***************************************************************************)
\* cancelPlan without the transition check.
Cancel_Get_AnyStatus(c, u) ==
  /\ CanStart(c)
  /\ Begin(c, "cancelPlan", u, None)
  /\ snap' = [snap EXCEPT ![c] = GetPlan(u)]
  /\ IF GetPlan(u) = None THEN Finish(c, Err("PlanNotFound"))
     ELSE IF plan.status = "canceled" THEN Finish(c, Ok(plan))
     ELSE Goto(c, "ca_write")
  /\ UNCHANGED <<plan, receipts, clock, loc>>

\* getPlan and the transition check; the check for an already canceled plan
\* comes after it (lines 324-335).
Cancel_Get(c, u) ==
  /\ CanStart(c)
  /\ Begin(c, "cancelPlan", u, None)
  /\ snap' = [snap EXCEPT ![c] = GetPlan(u)]
  /\ IF GetPlan(u) = None THEN Finish(c, Err("PlanNotFound"))
     ELSE IF plan.status \notin {"approved", "running", "paused"}
       THEN Finish(c, Err("InvalidTransition"))
     ELSE IF plan.status = "canceled" THEN Finish(c, Ok(plan))
     ELSE Goto(c, "ca_write")
  /\ UNCHANGED <<plan, receipts, clock, loc>>

\* The update writing back the row that was read, with the new status.
Cancel_Write_WholeRow(c) ==
  /\ At(c, "ca_write")
  /\ plan' = [snap[c][1] EXCEPT !.status = "canceled"]
  /\ Finish(c, Ok(plan'))
  /\ UNCHANGED <<started, receipts, clock, op, arg, snap, loc>>

\* The update (lines 337-352).
Cancel_Write(c) ==
  /\ At(c, "ca_write")
  /\ plan' = [plan EXCEPT !.status = "canceled"]
  /\ Finish(c, Ok(plan'))
  /\ UNCHANGED <<started, receipts, clock, op, arg, snap, loc>>

(***************************************************************************)
(* autoCompletePlan                                                        *)
(***************************************************************************)
\* What the call returns once the completion check is over: createReceipt
\* returns its receipt, autoCompletePlan the completed plan or null.
FinishCompletion(c, v) ==
  IF op[c] \in {"createReceipt", "pay"} THEN Finish(c, Ok(loc[c].row[1]))
  ELSE Finish(c, [kind |-> "ok", val |-> v])

\* The plan read without the check of its status.
ReadForCompletion_AnyStatus(c) ==
  /\ loc' = [loc EXCEPT ![c].acPlan = Some(plan)]
  /\ Goto(c, "ac_receipts")

\* The plan is read, by id alone, and its status checked (lines 370-386).
ReadForCompletion(c) ==
  /\ loc' = [loc EXCEPT ![c].acPlan = Some(plan)]
  /\ IF plan.status # "running" /\ plan.status # "paused"
       THEN FinishCompletion(c, None)
     ELSE Goto(c, "ac_receipts")

AutoComplete_Get(c) ==
  /\ CanStart(c)
  /\ Begin(c, "autoCompletePlan", "", None)
  /\ ReadForCompletion(c)
  /\ UNCHANGED <<plan, receipts, clock, snap>>

\* checkPlanCompletion, called by createReceipt (receiptService.ts 150-157).
CheckPlanCompletion(c) ==
  /\ At(c, "ac_get")
  /\ ReadForCompletion(c)
  /\ UNCHANGED <<started, plan, receipts, clock, op, arg, snap>>

\* The step ids of the receipts are read and compared with the steps of the
\* plan that was read (lines 388-405).
AutoComplete_Receipts(c) ==
  /\ At(c, "ac_receipts")
  /\ IF AllStepsHaveReceipts(loc[c].acPlan[1],
                             {receipts[i].step_id : i \in DOMAIN receipts})
       THEN Goto(c, "ac_write")
     ELSE FinishCompletion(c, None)
  /\ UNCHANGED <<started, plan, receipts, clock, op, arg, snap, loc>>

\* The update (lines 406-421).
AutoComplete_Write(c) ==
  /\ At(c, "ac_write")
  /\ plan' = [plan EXCEPT !.status = "completed"]
  /\ FinishCompletion(c, Some(plan'))
  /\ UNCHANGED <<started, receipts, clock, op, arg, snap, loc>>

(***************************************************************************)
(* createReceipt (receiptService.ts)                                       *)
(***************************************************************************)
\* The spend written before the rules are validated.
ValidateAndTotal_SpendFirst(c, p, r) ==
  LET newTotal == ToFixed6(FloatAdd(ParseFloat(p.execution.spend.total_usdc),
                                    ParseFloat(r.amount)))
      remaining == ToFixed6(FloatSub(ParseFloat(p.spec.budget.not_to_exceed_usdc),
                                     ParseFloat(newTotal)))
  IN /\ plan' = [plan EXCEPT !.execution.spend =
                   [total_usdc |-> newTotal, remaining_usdc |-> remaining]]
     /\ UNCHANGED receipts
     /\ IF ValidateBudgetRules(p, r) # Passed
          THEN Finish(c, Err(ValidateBudgetRules(p, r).code)) /\ UNCHANGED loc
        ELSE /\ Goto(c, "cr_insert")
             /\ loc' = [loc EXCEPT ![c].newTotal = newTotal,
                                   ![c].remaining = remaining]

\* validateBudgetRules on the plan that was read, then the new totals
\* (lines 46-54).  An error is thrown to the caller before anything is written.
ValidateAndTotal(c, p, r) ==
  IF ValidateBudgetRules(p, r) # Passed
    THEN /\ Finish(c, Err(ValidateBudgetRules(p, r).code))
         /\ UNCHANGED <<plan, receipts, loc>>
  ELSE LET newTotal == ToFixed6(FloatAdd(ParseFloat(p.execution.spend.total_usdc),
                                         ParseFloat(r.amount)))
           remaining == ToFixed6(FloatSub(ParseFloat(p.spec.budget.not_to_exceed_usdc),
                                          ParseFloat(newTotal)))
       IN /\ Goto(c, "cr_insert")
          /\ loc' = [loc EXCEPT ![c].newTotal = newTotal, ![c].remaining = remaining]
          /\ UNCHANGED <<plan, receipts>>

\* The rows the model lets in flight: a new receipt is submitted only while
\* fewer than MaxReceipts rows are stored or about to be.
RoomFor(r) ==
  \/ UniqueViolation(r)
  \/ Len(receipts) + Cardinality({d \in Calls : pc[d] \in {"cr_lookup", "cr_insert"}})
       < MaxReceipts

\* getPlan (line 27); without a payment_reference the validation follows.
CreateReceipt_Get(c, u, r) ==
  /\ CanStart(c)
  /\ RoomFor(r)
  /\ Begin(c, "createReceipt", u, Some(r))
  /\ snap' = [snap EXCEPT ![c] = GetPlan(u)]
  /\ IF GetPlan(u) = None
       THEN Finish(c, Err("PlanNotFound")) /\ UNCHANGED <<plan, receipts, loc>>
     ELSE IF r.payment_reference # None
       THEN Goto(c, "cr_lookup") /\ UNCHANGED <<plan, receipts, loc>>
     ELSE ValidateAndTotal(c, plan, r)
  /\ UNCHANGED clock

\* The lookup with the rules validated first: a stored receipt is returned
\* only when the resubmitted input passes them.
CreateReceipt_Lookup_Revalidates(c) ==
  /\ At(c, "cr_lookup")
  /\ LET r == arg[c].input[1]
         existing == ReceiptsByPaymentReference(r.step_id, r.payment_reference[1])
     IN IF existing # {} /\ ValidateBudgetRules(snap[c][1], r) = Passed
          THEN /\ Finish(c, Ok(receipts[CHOOSE i \in existing : TRUE]))
               /\ UNCHANGED <<plan, receipts, loc>>
        ELSE ValidateAndTotal(c, snap[c][1], r)
  /\ UNCHANGED <<started, clock, op, arg, snap>>

\* getReceiptByPaymentReference (lines 30-44), then the validation.
CreateReceipt_Lookup(c) ==
  /\ At(c, "cr_lookup")
  /\ LET r == arg[c].input[1]
         existing == ReceiptsByPaymentReference(r.step_id, r.payment_reference[1])
     IN IF existing # {}
          THEN /\ Finish(c, Ok(receipts[CHOOSE i \in existing : TRUE]))
               /\ UNCHANGED <<plan, receipts, loc>>
        ELSE ValidateAndTotal(c, snap[c][1], r)
  /\ UNCHANGED <<started, clock, op, arg, snap>>

\* The insert (lines 57-88); on a unique violation the existing row is read
\* and returned (rows are never updated or deleted in between).
CreateReceipt_Insert(c) ==
  /\ At(c, "cr_insert")
  /\ LET r == arg[c].input[1] IN
     IF UniqueViolation(r)
       THEN /\ Finish(c, Ok(receipts[CHOOSE i \in
                     ReceiptsByPaymentReference(r.step_id, r.payment_reference[1]) : TRUE]))
            /\ UNCHANGED <<receipts, loc>>
     ELSE /\ receipts' = Append(receipts, ReceiptRow(r))
          /\ loc' = [loc EXCEPT ![c].row = Some(ReceiptRow(r))]
          /\ Goto(c, "cr_spend")
  /\ UNCHANGED <<started, plan, clock, op, arg, snap>>

\* updatePlanSpend (lines 91, 162-193).
CreateReceipt_UpdatePlanSpend(c) ==
  /\ At(c, "cr_spend")
  /\ plan' = [plan EXCEPT !.execution =
                SpendExecution(loc[c].newTotal, loc[c].remaining)]
  /\ loc' = [loc EXCEPT ![c].spent = TRUE]
  /\ Goto(c, "ac_get")
  /\ UNCHANGED <<started, receipts, clock, op, arg, snap>>

(***************************************************************************)
(* The caller takes the result                                             *)
(***************************************************************************)
Return(c) ==
  /\ pc[c] = "done"
  /\ pc' = [pc EXCEPT ![c] = "idle"]
  /\ op' = [op EXCEPT ![c] = ""]
  /\ arg' = [arg EXCEPT ![c] = NoArg]
  /\ snap' = [snap EXCEPT ![c] = None]
  /\ loc' = [loc EXCEPT ![c] = NoLoc]
  /\ res' = [res EXCEPT ![c] = NoRes]
  /\ UNCHANGED <<started, plan, receipts, clock>>

Step(c) ==
  \/ \E u \in Users : GetPlanCall(c, u)
  \/ \E u \in Users : GetReceipts_Get(c, u)
  \/ GetReceipts_Select(c)
  \/ \E u \in Users, updates \in PlanUpdates : UpdatePlan_Get(c, u, updates)
  \/ UpdatePlan_Write(c)
  \/ \E u \in Users : Approve_Get(c, u)
  \/ Approve_Write(c)
  \/ \E u \in Users : Cancel_Get(c, u)
  \/ Cancel_Write(c)
  \/ AutoComplete_Get(c)
  \/ CheckPlanCompletion(c)
  \/ AutoComplete_Receipts(c)
  \/ AutoComplete_Write(c)
  \/ \E u \in Users, r \in ReceiptInputs : CreateReceipt_Get(c, u, r)
  \/ CreateReceipt_Lookup(c)
  \/ CreateReceipt_Insert(c)
  \/ CreateReceipt_UpdatePlanSpend(c)
  \/ Return(c)

\* Calls overlap in every way their awaits allow.
Next == \E c \in Calls : Step(c)

Spec == Init /\ [][Next]_vars

\* Each call finishes, and its result is taken, before the next starts: there
\* is one slot.
SeqCalls == {1}

SeqNext == \E c \in SeqCalls : Step(c)

SeqSpec == Init /\ [][SeqNext]_vars

(***************************************************************************)
(* The Budget Enforcer called on its own: each exported check, and          *)
(* matchesPattern, applied to inputs of every shape the checks distinguish. *)
(***************************************************************************)
EnforcerUrls ==
  { UrlA, UrlD, UrlX, <<"a">>, <<"a", "*", "b">>, <<"a", "x", "b">>, <<"*">>, <<>> }

EnforcerPatterns ==
  { UrlA, UrlD, UrlX, <<"a", "*">>, <<"*">>, <<"a", "*", "b">>, <<"*", "a">>,
    <<"a", "b", "*">>, <<>> }

Policy2 == [allowlist |-> << UrlX, <<"a", "*", "b">> >>, denylist |-> None,
            require_allowlist |-> TRUE]
Policy3 == [allowlist |-> << >>, denylist |-> Some(<< <<"a", "*">> >>),
            require_allowlist |-> FALSE]

EnforcerPolicies ==
  { Policy1, [Policy1 EXCEPT !.require_allowlist = FALSE], Policy2, Policy3 }

Budget3 == [not_to_exceed_usdc |-> 3, approval_threshold_usdc |-> Some(1),
            per_tool_caps_usdc |->
              Some(<< << <<"a", "*">>, 2 >>, << UrlA, 1 >>, << <<"*">>, 1 >> >>),
            per_step_default_cap_usdc |-> Some(2)]
Budget4 == [not_to_exceed_usdc |-> 4, approval_threshold_usdc |-> None,
            per_tool_caps_usdc |-> Some(<< << UrlA, 1 >>, << <<"a", "*">>, 3 >> >>),
            per_step_default_cap_usdc |-> Some(3)]

EnforcerBudgets == { Budget1, Budget2, Budget3, Budget4 }

EnforcerSteps == { Step1, Step2 }

EnforcerReceipts ==
  { RI(s, u, a, None) : s \in {"s1", "s2", "s3"}, u \in {UrlA, UrlD, UrlX},
                        a \in 1..4 }

\* Plans as createReceipt reads them: created with a policy and a budget,
\* with the spend of the receipts stored so far.
EnforcerPlans ==
  { [CreatePlan(Owner, [PlanInput1 EXCEPT !.tool_policy = tp, !.budget = b])
       EXCEPT !.execution.spend.total_usdc = t] :
    tp \in EnforcerPolicies, b \in EnforcerBudgets, t \in 0..2 }

\* What the caller of a check sees: nothing, or the error thrown.
CheckResult(r) == [kind |-> r.code, val |-> r.limit]

Apply(c, name, input, result) ==
  /\ CanStart(c)
  /\ Begin(c, name, "", Some(input))
  /\ Finish(c, result)
  /\ UNCHANGED <<plan, receipts, clock, snap, loc>>

MatchesPattern_Apply(c, url, pattern) ==
  Apply(c, "matchesPattern", <<url, pattern>>, Ok(MatchesPattern(url, pattern)))

MatchToolAllowlist_Apply(c, toolPolicy, toolUrl) ==
  Apply(c, "matchToolAllowlist", <<toolPolicy, toolUrl>>,
        CheckResult(MatchToolAllowlist(toolPolicy, toolUrl)))

CheckPerRequestLimit_Apply(c, budget, step, receipt) ==
  Apply(c, "checkPerRequestLimit", <<budget, step, receipt>>,
        CheckResult(CheckPerRequestLimit(budget, step, receipt)))

CheckPerToolLimit_Apply(c, budget, receipt) ==
  Apply(c, "checkPerToolLimit", <<budget, receipt>>,
        CheckResult(CheckPerToolLimit(budget, receipt)))

ValidateBudgetRules_Apply(c, p, receipt) ==
  Apply(c, "validateBudgetRules", <<p, receipt>>,
        CheckResult(ValidateBudgetRules(p, receipt)))

EnforcerStep(c) ==
  \/ \E url \in EnforcerUrls, pattern \in EnforcerPatterns :
       MatchesPattern_Apply(c, url, pattern)
  \/ \E tp \in EnforcerPolicies, url \in EnforcerUrls :
       MatchToolAllowlist_Apply(c, tp, url)
  \/ \E b \in EnforcerBudgets, st \in EnforcerSteps, r \in EnforcerReceipts :
       CheckPerRequestLimit_Apply(c, b, st, r)
  \/ \E b \in EnforcerBudgets, r \in EnforcerReceipts :
       CheckPerToolLimit_Apply(c, b, r)
  \/ \E p \in EnforcerPlans, r \in EnforcerReceipts :
       ValidateBudgetRules_Apply(c, p, r)
  \/ Return(c)

EnforcerNext == \E c \in SeqCalls : EnforcerStep(c)

EnforcerSpec == Init /\ [][EnforcerNext]_vars

(***************************************************************************)
(* Store failures in the best-effort side effects of createReceipt: the    *)
(* store answers with an error, or the client throws.                      *)
(***************************************************************************)
\* updatePlanSpend whose failure is thrown to createReceipt's caller.
UpdatePlanSpend_Fails_Throws(c) ==
  /\ At(c, "cr_spend")
  /\ Finish(c, Err("Error"))
  /\ UNCHANGED <<started, plan, receipts, clock, op, arg, snap, loc>>

\* updatePlanSpend: the update fails; it is logged and not thrown
\* (receiptService.ts 183-191), and createReceipt goes on (line 94).
UpdatePlanSpend_Fails(c) ==
  /\ At(c, "cr_spend")
  /\ Goto(c, "ac_get")
  /\ loc' = [loc EXCEPT ![c].failed = TRUE]
  /\ UNCHANGED <<started, plan, receipts, clock, op, arg, snap>>

\* autoCompletePlan: the read of the plan fails (service.ts 377-380, 425-428).
AutoComplete_Read_Fails(c) ==
  /\ At(c, "ac_get")
  /\ FinishCompletion(c, None)
  /\ loc' = [loc EXCEPT ![c].failed = TRUE]
  /\ UNCHANGED <<started, plan, receipts, clock, op, arg, snap>>

\* The read of the receipts fails (lines 393-396).
AutoComplete_Receipts_Fails(c) ==
  /\ At(c, "ac_receipts")
  /\ FinishCompletion(c, None)
  /\ loc' = [loc EXCEPT ![c].failed = TRUE]
  /\ UNCHANGED <<started, plan, receipts, clock, op, arg, snap>>

\* The update of the status fails (lines 416-419).
AutoComplete_Write_Fails(c) ==
  /\ At(c, "ac_write")
  /\ FinishCompletion(c, None)
  /\ loc' = [loc EXCEPT ![c].failed = TRUE]
  /\ UNCHANGED <<started, plan, receipts, clock, op, arg, snap>>

FaultStep(c) ==
  \/ Step(c)
  \/ UpdatePlanSpend_Fails(c)
  \/ AutoComplete_Read_Fails(c)
  \/ AutoComplete_Receipts_Fails(c)
  \/ AutoComplete_Write_Fails(c)

\* Calls one after the other, with a store that may fail in the side effects;
\* loc[c].failed records that a side effect of the call c has failed (what
\* logger.error records).
FaultNext == \E c \in SeqCalls : FaultStep(c)

FaultSpec == Init /\ [][FaultNext]_vars

(***************************************************************************)
(* canonicalizePlan called on two plans                                    *)
(***************************************************************************)
\* metadata objects: <<key, value>> pairs in insertion order.
Meta1 == << <<"k", 1>>, <<"title", 2>> >>
Meta2 == << <<"title", 2>>, <<"k", 1>> >>
Meta3 == << <<"k", 2>>, <<"title", 2>> >>
Meta4 == << <<"k", 1>>, <<"title", 3>> >>

HashBase == [PlanInput1 EXCEPT !.tags = Some(<<1, 2>>), !.metadata = Some(Meta1)]

\* The base input and inputs that differ from it in one place.
HashInputs ==
  { HashBase,
    [HashBase EXCEPT !.title = "t2"],
    [HashBase EXCEPT !.objective = "o2"],
    [HashBase EXCEPT !.tags = Some(<<2, 1>>)],
    [HashBase EXCEPT !.tags = Some(<<1, 2, 2>>)],
    [HashBase EXCEPT !.tags = Some(<<1>>)],
    [HashBase EXCEPT !.metadata = Some(Meta2)],
    [HashBase EXCEPT !.metadata = Some(Meta3)],
    [HashBase EXCEPT !.metadata = Some(Meta4)],
    [HashBase EXCEPT !.budget = Budget2],
    [HashBase EXCEPT !.steps = <<[Step1 EXCEPT !.url = UrlD], Step2>>],
    [HashBase EXCEPT !.steps = <<[Step1 EXCEPT !.max_cost_usdc = Some(1)], Step2>>],
    [HashBase EXCEPT !.tool_policy = Policy2] }

HashPlans == { CreatePlan(Owner, planInput) : planInput \in HashInputs }

CanonicalizePlan_Apply(c, p, q) ==
  Apply(c, "canonicalizePlan", <<p, q>>,
        Ok(<<CanonicalizePlan(p), CanonicalizePlan(q)>>))

HashStep(c) ==
  \/ \E p \in HashPlans, q \in HashPlans : CanonicalizePlan_Apply(c, p, q)
  \/ Return(c)

HashNext == \E c \in SeqCalls : HashStep(c)

HashSpec == Init /\ [][HashNext]_vars

(***************************************************************************)
(* Properties                                                              *)
(***************************************************************************)
Done(c, name) == pc[c] = "done" /\ op[c] = name

Quiescent == \A c \in Calls : pc[c] \in {"idle", "done"}

RECURSIVE SumAmounts(_)
SumAmounts(rows) ==
  IF rows = <<>> THEN 0 ELSE rows[1].amount + SumAmounts(Tail(rows))

ReceiptStepIds == {receipts[i].step_id : i \in DOMAIN receipts}

\* C1: for a (step_id, payment_reference) exactly one row is ever stored,
\* every createReceipt call submitted with that key that succeeds returns
\* that row, and the spend is written for it once: by the call that stored
\* the row, as the total it read plus the amount, and by no call that found
\* the row already there (in the lookup or on the unique violation).
C1_IdempotentReceipt ==
  \A c \in Calls :
    (/\ Done(c, "createReceipt")
     /\ res[c].kind = "ok"
     /\ arg[c].input[1].payment_reference # None)
    => LET r == arg[c].input[1]
           rows == ReceiptsByPaymentReference(r.step_id, r.payment_reference[1])
       IN /\ Cardinality(rows) = 1
          /\ \A i \in rows : res[c].val = Some(receipts[i])
          /\ loc[c].spent = (loc[c].row # None)
          /\ loc[c].spent =>
               /\ loc[c].row = res[c].val
               /\ loc[c].newTotal =
                    snap[c][1].execution.spend.total_usdc + res[c].val[1].amount

\* C1 witness: a call that passed the lookup and the validation lost the
\* insert to a concurrent call with the same key and returned the stored row.
C1_Witness ==
  \E c \in Calls :
    /\ Done(c, "createReceipt")
    /\ res[c].kind = "ok"
    /\ arg[c].input[1].payment_reference # None
    /\ loc[c].newTotal > 0
    /\ loc[c].row = None
    /\ res[c].val[1].amount # arg[c].input[1].amount

C3_RejectionChangesNothing ==
  [][\A c \in Calls :
       (/\ pc[c] # "done"
        /\ pc'[c] = "done"
        /\ op'[c] = "createReceipt"
        /\ res'[c].kind \in BudgetErrors)
       => /\ plan' = plan
          /\ receipts' = receipts
          /\ loc'[c].row = None
          /\ ~loc'[c].spent]_vars

\* C3 witness: a receipt for a running plan with a receipt stored was
\* rejected by the total-budget check.
C3_Witness ==
  \E c \in Calls :
    /\ Done(c, "createReceipt")
    /\ res[c].kind = "BudgetExceeded"
    /\ plan.status = "running"
    /\ Len(receipts) > 0
    /\ CheckTotalBudget(snap[c][1], arg[c].input[1]).code = "BudgetExceeded"

\* C4: when calls do not overlap, after a createReceipt call that found the
\* plan running and returned a receipt, the plan is completed if and only if
\* every step of spec.steps has a stored receipt.
C4_CompletedIffAllStepsReceipted ==
  \A c \in Calls :
    (/\ Done(c, "createReceipt")
     /\ res[c].kind = "ok"
     /\ snap[c][1].status = "running")
    => (plan.status = "completed" <=> AllStepsHaveReceipts(plan, ReceiptStepIds))

\* C5: when calls do not overlap, approveAndStartPlan on a plan that is
\* already running returns the stored plan, with the plan_hash, integrity and
\* execution the approval wrote, and writes nothing.
C5_ReapproveReturnsStoredPlan ==
  \A c \in Calls :
    (/\ Done(c, "approveAndStartPlan")
     /\ snap[c] # None
     /\ snap[c][1].status = "running")
    => /\ res[c] = Ok(plan)
       /\ plan = snap[c][1]
       /\ plan.plan_hash # None
       /\ plan.integrity.approved_at # None
       /\ plan.integrity.approved_by = Some(arg[c].user)
       /\ clock = plan.integrity.approved_at[1]

\* C5 witness: a second approveAndStartPlan has returned the running plan.
C5_Witness ==
  \E c \in Calls :
    /\ Done(c, "approveAndStartPlan")
    /\ snap[c] # None
    /\ snap[c][1].status = "running"
    /\ res[c].kind = "ok"
    /\ res[c].val[1].integrity.approved_at = Some(1)

\* C6: cancelPlan on a plan that is already canceled returns the plan without
\* an error and leaves it canceled.
C6_CancelIdempotent ==
  \A c \in Calls :
    (/\ Done(c, "cancelPlan")
     /\ snap[c] # None
     /\ snap[c][1].status = "canceled")
    => /\ res[c].kind = "ok"
       /\ plan.status = "canceled"

TerminalStatuses == {"completed", "canceled", "failed"}

\* C7: once the stored status is completed, canceled or failed, no step of
\* any call changes it.
C7_TerminalStatusIsFinal ==
  [][plan.status \in TerminalStatuses => plan'.status = plan.status]_vars

\* C8: once the status has left draft, title, objective and spec never change.
C8_ContractFrozenAfterDraft ==
  [][plan.status # "draft" =>
       /\ plan'.title = plan.title
       /\ plan'.objective = plan.objective
       /\ plan'.spec = plan.spec]_vars

\* C9: plan_hash, once non-null, keeps its value in every later state, and it
\* is the hash of the title, objective, spec, tags and metadata the plan holds.
C9_PlanHashWrittenOnce ==
  [][plan.plan_hash # None =>
       /\ plan'.plan_hash = plan.plan_hash
       /\ plan.plan_hash = Some(ComputePlanHash(plan))]_vars

\* C10: updatePlan that reads a plan whose status is not draft ends, in that
\* step, with PlanLocked and changes neither the plan row nor the receipts.
C10_UpdateLockedOutsideDraft ==
  [][\A c \in Calls :
       (/\ pc[c] # "done"
        /\ pc'[c] = "done"
        /\ op'[c] = "updatePlan"
        /\ snap'[c] # None
        /\ snap'[c][1].status # "draft")
       => /\ res'[c] = Err("PlanLocked")
          /\ plan' = plan
          /\ receipts' = receipts]_vars

\* C10 witness: updatePlan on a running plan with a receipt has been refused.
C10_Witness ==
  \E c \in Calls :
    /\ Done(c, "updatePlan")
    /\ res[c].kind = "PlanLocked"
    /\ snap[c][1].status = "running"
    /\ Len(receipts) > 0

\* The value a field holds after a patch that replaces it when provided.
Patched(provided, prior) == IF provided # None THEN provided[1] ELSE prior

\* C11: when calls do not overlap, after a successful updatePlan every field
\* among title, objective, scope, steps, tool_policy and budget that the patch
\* provides holds the provided value, and every one it does not provide holds
\* the value it had before the call.
C11_PatchReplacesProvidedFields ==
  \A c \in Calls :
    (Done(c, "updatePlan") /\ res[c].kind = "ok")
    => LET updates == arg[c].input[1]
           prior == snap[c][1]
       IN /\ plan.title = Patched(updates.title, prior.title)
          /\ plan.objective = Patched(updates.objective, prior.objective)
          /\ plan.spec.scope = Patched(updates.scope, prior.spec.scope)
          /\ plan.spec.steps = Patched(updates.steps, prior.spec.steps)
          /\ plan.spec.tool_policy = Patched(updates.tool_policy, prior.spec.tool_policy)
          /\ plan.spec.budget = Patched(updates.budget, prior.spec.budget)

\* The operations that take the caller's identity.
OwnerScoped ==
  {"getPlan", "updatePlan", "approveAndStartPlan", "cancelPlan", "createReceipt",
   "getReceipts"}

\* C12: a call of an owner-scoped operation by an identity that is not the
\* plan's owner_id ends in its first step with PlanNotFound, has read nothing
\* and returns nothing of the plan, and changes neither the plan row nor the
\* receipt rows.
C12_NotFoundForNonOwner ==
  [][\A c \in Calls :
       (/\ pc[c] = "idle"
        /\ pc'[c] # "idle"
        /\ op'[c] \in OwnerScoped
        /\ arg'[c].user # plan.owner_id)
       => /\ pc'[c] = "done"
          /\ res'[c] = Err("PlanNotFound")
          /\ snap'[c] = None
          /\ plan' = plan
          /\ receipts' = receipts]_vars

\* C12 witness: getReceipts by another identity on a running plan with a
\* receipt stored has failed with PlanNotFound.
C12_Witness ==
  \E c \in Calls :
    /\ Done(c, "getReceipts")
    /\ arg[c].user # plan.owner_id
    /\ res[c] = Err("PlanNotFound")
    /\ plan.status = "running"
    /\ Len(receipts) > 0

\* C13: approveAndStartPlan that reads a plan whose status is paused,
\* completed, canceled or failed, and cancelPlan that reads one whose status is
\* draft, completed or failed, end in that step with InvalidTransition and
\* change neither the plan row nor the receipt rows.
C13_InvalidTransitionRejected ==
  [][\A c \in Calls :
       (/\ pc[c] = "idle"
        /\ pc'[c] # "idle"
        /\ snap'[c] # None
        /\ \/ /\ op'[c] = "approveAndStartPlan"
              /\ snap'[c][1].status \in {"paused", "completed", "canceled", "failed"}
           \/ /\ op'[c] = "cancelPlan"
              /\ snap'[c][1].status \in {"draft", "completed", "failed"})
       => /\ pc'[c] = "done"
          /\ res'[c] = Err("InvalidTransition")
          /\ plan' = plan
          /\ receipts' = receipts]_vars

\* C13 witness: cancelPlan on a completed plan has been refused.
C13_Witness ==
  \E c \in Calls :
    /\ Done(c, "cancelPlan")
    /\ snap[c] # None
    /\ snap[c][1].status = "completed"
    /\ res[c] = Err("InvalidTransition")
    /\ plan.status = "completed"

\* The outcome of each rule taken alone, in the order tool policy, step
\* existence, step max_cost, per_step_default_cap, per-tool cap, total budget,
\* approval threshold.
RuleOutcomes(p, receipt) ==
  LET step == FindStep(p.spec.steps, receipt.step_id)
      budget == p.spec.budget
  IN << MatchToolAllowlist(p.spec.tool_policy, receipt.url),
        IF step = None THEN Thrown("StepNotFound", None) ELSE Passed,
        IF step = None THEN Passed
        ELSE CheckPerRequestLimit([budget EXCEPT !.per_step_default_cap_usdc = None],
                                  step[1], receipt),
        CheckPerRequestLimit(budget, [max_cost_usdc |-> None], receipt),
        CheckPerToolLimit(budget, receipt),
        CheckTotalBudget(p, receipt),
        CheckApprovalThreshold(budget, receipt) >>

FirstThrown(outcomes) ==
  LET thrown == {i \in DOMAIN outcomes : outcomes[i] # Passed}
  IN IF thrown = {} THEN Passed
     ELSE outcomes[CHOOSE i \in thrown : \A j \in thrown : i <= j]

\* C14: validateBudgetRules reports the error, with the limit it names, of the
\* first violated rule in the order tool policy, step existence, step max_cost,
\* per_step_default_cap, per-tool cap, total budget, approval threshold, and
\* passes when no rule is violated.
C14_FirstViolatedRuleReported ==
  \A c \in Calls :
    Done(c, "validateBudgetRules")
    => res[c] = CheckResult(FirstThrown(RuleOutcomes(arg[c].input[1][1],
                                                     arg[c].input[1][2])))

\* C14 witness: a receipt whose URL fails the tool policy, whose step is
\* unknown and whose amount exceeds the default cap, the tool cap, the total
\* budget and the approval threshold was refused with ToolNotAllowed.
C14_Witness ==
  \E c \in Calls :
    /\ Done(c, "validateBudgetRules")
    /\ res[c].kind = "ToolNotAllowed"
    /\ LET outcomes == RuleOutcomes(arg[c].input[1][1], arg[c].input[1][2])
       IN \A i \in {1, 2, 4, 5, 6, 7} : outcomes[i] # Passed

\* C15: matchToolAllowlist accepts a URL if and only if require_allowlist is
\* false, or no denylist pattern matches it and some allowlist pattern does;
\* otherwise it throws ToolNotAllowed.
C15_ToolPolicyDecision ==
  \A c \in Calls :
    Done(c, "matchToolAllowlist")
    => LET toolPolicy == arg[c].input[1][1]
           toolUrl == arg[c].input[1][2]
           denied == /\ toolPolicy.denylist # None
                     /\ \E i \in DOMAIN toolPolicy.denylist[1] :
                          MatchesPattern(toolUrl, toolPolicy.denylist[1][i])
           allowed == \E i \in DOMAIN toolPolicy.allowlist :
                        MatchesPattern(toolUrl, toolPolicy.allowlist[i])
       IN /\ res[c].kind \in {"ok", "ToolNotAllowed"}
          /\ res[c].kind = "ok"
               <=> (~toolPolicy.require_allowlist \/ (~denied /\ allowed))

\* C15 witness: with require_allowlist false, a URL that matches a denylist
\* pattern and no allowlist pattern was accepted.
C15_Witness ==
  \E c \in Calls :
    /\ Done(c, "matchToolAllowlist")
    /\ res[c].kind = "ok"
    /\ ~arg[c].input[1][1].require_allowlist
    /\ arg[c].input[1][1].allowlist = << >>
    /\ AnyMatch(arg[c].input[1][2], arg[c].input[1][1].denylist[1])

\* url begins with the characters of prefix.
StartsWith(url, prefix) ==
  /\ Len(prefix) <= Len(url)
  /\ \A i \in DOMAIN prefix : url[i] = prefix[i]

\* C16: matchesPattern is true if and only if the URL equals the pattern, or
\* the pattern's last character is '*' and the URL starts with the characters
\* before it; a '*' elsewhere in the pattern is compared as a character.
C16_PatternMatch ==
  \A c \in Calls :
    Done(c, "matchesPattern")
    => LET url == arg[c].input[1][1]
           pattern == arg[c].input[1][2]
       IN res[c].val[1]
            <=> \/ url = pattern
                \/ /\ pattern # << >>
                   /\ pattern[Len(pattern)] = "*"
                   /\ StartsWith(url, [i \in 1..(Len(pattern) - 1) |-> pattern[i]])

\* C16 witness: a pattern with '*' in the middle did not match a URL that has
\* the characters before the '*' and differs after them.
C16_Witness ==
  \E c \in Calls :
    /\ Done(c, "matchesPattern")
    /\ arg[c].input[1][2] = <<"a", "*", "b">>
    /\ arg[c].input[1][1] = <<"a", "x", "b">>
    /\ res[c].val = Some(FALSE)

\* C17: checkPerRequestLimit throws BudgetExceeded if and only if the amount
\* is above the step's max_cost, when set, or above per_step_default_cap, when
\* set; an amount equal to a cap is within it.
C17_IndependentCeilings ==
  \A c \in Calls :
    Done(c, "checkPerRequestLimit")
    => LET budget == arg[c].input[1][1]
           step == arg[c].input[1][2]
           amount == arg[c].input[1][3].amount
           overStep == /\ step.max_cost_usdc # None
                       /\ amount > step.max_cost_usdc[1]
           overDefault == /\ budget.per_step_default_cap_usdc # None
                          /\ amount > budget.per_step_default_cap_usdc[1]
       IN /\ res[c].kind \in {"ok", "BudgetExceeded"}
          /\ res[c].kind = "BudgetExceeded" <=> (overStep \/ overDefault)

\* C17 witness: an amount equal to the step's max_cost and above
\* per_step_default_cap was refused, the error naming the default cap.
C17_Witness ==
  \E c \in Calls :
    /\ Done(c, "checkPerRequestLimit")
    /\ res[c].kind = "BudgetExceeded"
    /\ arg[c].input[1][2].max_cost_usdc = Some(arg[c].input[1][3].amount)
    /\ res[c].val = arg[c].input[1][1].per_step_default_cap_usdc
    /\ res[c].val # arg[c].input[1][2].max_cost_usdc

\* C18: checkPerToolLimit evaluates only the first entry of per_tool_caps
\* whose pattern matches the URL: it throws BudgetExceeded if and only if such
\* an entry exists and the amount is above its cap, whatever the caps of the
\* later matching entries.
C18_FirstMatchingCapDecides ==
  \A c \in Calls :
    Done(c, "checkPerToolLimit")
    => LET budget == arg[c].input[1][1]
           receipt == arg[c].input[1][2]
           caps == IF budget.per_tool_caps_usdc = None THEN << >>
                   ELSE budget.per_tool_caps_usdc[1]
       IN /\ res[c].kind \in {"ok", "BudgetExceeded"}
          /\ res[c].kind = "BudgetExceeded"
               <=> \E i \in DOMAIN caps :
                     /\ MatchesPattern(receipt.url, caps[i][1])
                     /\ \A j \in 1..(i - 1) : ~MatchesPattern(receipt.url, caps[j][1])
                     /\ receipt.amount > caps[i][2]

\* C18 witness: a receipt within the cap of the first matching entry and above
\* the cap of a later matching entry passed the check.
C18_Witness ==
  \E c \in Calls :
    /\ Done(c, "checkPerToolLimit")
    /\ res[c].kind = "ok"
    /\ arg[c].input[1][1].per_tool_caps_usdc # None
    /\ LET caps == arg[c].input[1][1].per_tool_caps_usdc[1]
           receipt == arg[c].input[1][2]
       IN \E i \in DOMAIN caps :
            /\ MatchesPattern(receipt.url, caps[i][1])
            /\ receipt.amount > caps[i][2]

\* The call c of createReceipt has run validateBudgetRules: it was refused by
\* it, or it went on with the new total.
Validated(c) ==
  /\ Done(c, "createReceipt")
  /\ snap[c] # None
  /\ res[c].kind \in BudgetErrors \/ loc[c].newTotal > 0

\* C19: when calls do not overlap, a receipt that passes the tool policy, the
\* step lookup and the per-request and per-tool caps is refused with
\* BudgetExceeded exactly when the total of the plan that was read plus the
\* amount is strictly greater than not_to_exceed (a receipt that brings the
\* total exactly to the limit is accepted), and a refusal leaves spend.total
\* at the value that was read.
C19_TotalBudgetBoundary ==
  \A c \in Calls :
    (/\ Validated(c)
     /\ \A i \in 1..5 : RuleOutcomes(snap[c][1], arg[c].input[1])[i] = Passed)
    => LET p == snap[c][1]
           amount == arg[c].input[1].amount
       IN /\ res[c].kind = "BudgetExceeded"
               <=> p.execution.spend.total_usdc + amount
                     > p.spec.budget.not_to_exceed_usdc
          /\ res[c].kind = "BudgetExceeded"
               => plan.execution.spend.total_usdc = p.execution.spend.total_usdc

\* C20: the step in which createReceipt validates a receipt that passes the
\* tool policy, the step lookup, every cap and the total budget ends with
\* ApprovalRequired, storing no row and changing no plan, when
\* approval_threshold is set and the amount is strictly greater than it; when
\* the threshold is unset or the amount is at most the threshold, validation
\* does not end with ApprovalRequired.
C20_ApprovalThreshold ==
  [][\A c \in Calls :
       (/\ pc[c] \in {"idle", "cr_lookup"}
        /\ op'[c] = "createReceipt"
        /\ \/ pc'[c] = "cr_insert"
           \/ pc'[c] = "done" /\ res'[c].kind \in BudgetErrors)
       => LET budget == snap'[c][1].spec.budget
              amount == arg'[c].input[1].amount
              outcomes == RuleOutcomes(snap'[c][1], arg'[c].input[1])
              needed == /\ budget.approval_threshold_usdc # None
                        /\ amount > budget.approval_threshold_usdc[1]
          IN /\ (needed /\ \A i \in 1..6 : outcomes[i] = Passed)
                  => /\ pc'[c] = "done"
                     /\ res'[c] = Err("ApprovalRequired")
                     /\ loc'[c].row = None
                     /\ receipts' = receipts
                     /\ plan' = plan
             /\ ~needed => res'[c].kind # "ApprovalRequired"]_vars

\* C20 witness: a receipt on a running plan, within every cap and the total
\* budget and above the approval threshold, was refused with ApprovalRequired
\* while another receipt is stored.
C20_Witness ==
  \E c \in Calls :
    /\ Done(c, "createReceipt")
    /\ res[c] = Err("ApprovalRequired")
    /\ snap[c][1].status = "running"
    /\ Len(receipts) > 0
    /\ \A i \in 1..6 : RuleOutcomes(snap[c][1], arg[c].input[1])[i] = Passed

\* C21: once createReceipt has inserted its row, whatever fails in the spend
\* update or in the completion check, no step of the call removes or changes a
\* receipt row, the step after the spend update (failed or not) is the
\* completion check, and the call can only end by returning the row it
\* stored.
C21_SideEffectFailuresNotRaised ==
  [][\A c \in Calls :
       (op[c] = "createReceipt" /\ loc[c].row # None /\ pc[c] # "done")
       => /\ receipts' = receipts
          /\ \E i \in DOMAIN receipts' : receipts'[i] = loc[c].row[1]
          /\ pc[c] = "cr_spend" => pc'[c] \in {"cr_spend", "ac_get"}
          /\ pc'[c] = "done" => res'[c] = Ok(loc[c].row[1])]_vars

\* C21 witness: the spend update failed, the completion check of the same
\* call completed the plan, and the call returned its receipt.
C21_Witness ==
  \E c \in Calls :
    /\ Done(c, "createReceipt")
    /\ loc[c].row # None
    /\ ~loc[c].spent
    /\ res[c] = Ok(loc[c].row[1])
    /\ snap[c][1].status = "running"
    /\ plan.status = "completed"
    /\ plan.execution.spend.total_usdc # SumAmounts(receipts)

\* C22: when calls do not overlap, createReceipt with a payment_reference for
\* which a row is already stored under the same step_id returns that row as it
\* is stored, without validating the input (no new total is computed), without
\* storing a row and without changing the plan, whatever the amount and the
\* URL of the input and whether or not the rules would now reject it.
C22_DuplicateReturnsStoredReceipt ==
  \A c \in Calls :
    (/\ Done(c, "createReceipt")
     /\ snap[c] # None
     /\ arg[c].input[1].payment_reference # None
     /\ loc[c].row = None
     /\ ReceiptsByPaymentReference(arg[c].input[1].step_id,
                                    arg[c].input[1].payment_reference[1]) # {})
    => LET rows == ReceiptsByPaymentReference(arg[c].input[1].step_id,
                                              arg[c].input[1].payment_reference[1])
       IN /\ Cardinality(rows) = 1
          /\ \A i \in rows : res[c] = Ok(receipts[i])
          /\ loc[c].newTotal = 0
          /\ ~loc[c].spent
          /\ plan = snap[c][1]
          /\ plan.execution.spend.total_usdc = SumAmounts(receipts)

\* C22 witness: a resubmission with another amount and another URL, which the
\* rules reject, returned the stored receipt.
C22_Witness ==
  \E c \in Calls :
    /\ Done(c, "createReceipt")
    /\ res[c].kind = "ok"
    /\ loc[c].row = None
    /\ res[c].val[1].amount # arg[c].input[1].amount
    /\ res[c].val[1].url # arg[c].input[1].url
    /\ ValidateBudgetRules(snap[c][1], arg[c].input[1]) # Passed
    /\ snap[c][1].status = "running"

\* The entries of an object or the elements of an array, order and
\* repetition set aside.
Entries(seq) == {seq[i] : i \in DOMAIN seq}

\* C23: two plans with the same title, objective and spec, metadata with the
\* same entries and tags arrays with the same set of elements have the same
\* canonical string.
C23_CanonicalIgnoresOrder ==
  \A c \in Calls :
    Done(c, "canonicalizePlan")
    => LET p == arg[c].input[1][1]
           q == arg[c].input[1][2]
       IN (/\ p.title = q.title
           /\ p.objective = q.objective
           /\ p.spec = q.spec
           /\ Entries(p.metadata) = Entries(q.metadata)
           /\ Entries(p.tags) = Entries(q.tags))
          => res[c].val[1][1] = res[c].val[1][2]

\* C24: two plans that agree on title, objective, tags and metadata entries
\* and differ inside spec, or that differ in a metadata value, have different
\* canonical strings.
C24_CanonicalCoversNesting ==
  \A c \in Calls :
    Done(c, "canonicalizePlan")
    => LET p == arg[c].input[1][1]
           q == arg[c].input[1][2]
       IN (/\ p.title = q.title
           /\ p.objective = q.objective
           /\ p.tags = q.tags
           /\ p.spec # q.spec \/ Entries(p.metadata) # Entries(q.metadata))
          => res[c].val[1][1] # res[c].val[1][2]

\* C25: integrity, once approved_at is set, is never written again: of two
\* approveAndStartPlan calls on the same draft plan only one writes.
C25_ApprovedOnce ==
  [][plan.integrity.approved_at # None =>
       /\ plan'.integrity = plan.integrity
       /\ \A c \in Calls :
            (op[c] = "approveAndStartPlan" /\ pc[c] # "done" /\ pc'[c] = "done")
            => plan' = plan]_vars

\* C26: every createReceipt call that went on after the validation passed
\* the total-budget check on the total it read: that total plus its amount is
\* within not_to_exceed, and is the new total it writes.
C26_EachCallPassedItsOwnCheck ==
  \A c \in Calls :
    (op[c] = "createReceipt" /\ loc[c].newTotal > 0)
    => /\ loc[c].newTotal
            = snap[c][1].execution.spend.total_usdc + arg[c].input[1].amount
       /\ loc[c].newTotal <= snap[c][1].spec.budget.not_to_exceed_usdc

\* C26 witness: two overlapping createReceipt calls with different payment
\* references read the same total of the running plan, both stored their
\* receipt, and the stored amounts add up to more than not_to_exceed.
C26_Witness ==
  \E c \in Calls, d \in Calls :
    /\ c # d
    /\ op[c] = "createReceipt" /\ op[d] = "createReceipt"
    /\ loc[c].row # None /\ loc[d].row # None
    /\ arg[c].input[1].payment_reference # arg[d].input[1].payment_reference
    /\ snap[c][1].status = "running" /\ snap[d][1].status = "running"
    /\ snap[c][1].execution.spend.total_usdc = snap[d][1].execution.spend.total_usdc
    /\ plan.spec.budget = snap[c][1].spec.budget
    /\ SumAmounts(receipts) > plan.spec.budget.not_to_exceed_usdc

\* C27: in every state, the status is draft if and only if plan_hash is null,
\* and if and only if approved_at and approved_by are both null (they are set
\* together); the plan createPlan stored is such a draft.
C27_DraftIffNotApproved ==
  /\ plan.status = "draft" <=> plan.plan_hash = None
  /\ plan.status = "draft" <=> plan.integrity.approved_at = None
  /\ plan.status = "draft" <=> plan.integrity.approved_by = None
  /\ plan.integrity.plan_hash = plan.plan_hash
  /\ started = 0 => plan.status = "draft"

\* C27 witness: an approved plan was canceled while an updatePlan call that
\* read the draft was still to write.
C27_Witness ==
  /\ plan.status = "canceled"
  /\ plan.plan_hash # None
  /\ plan.integrity.approved_by = Some(Owner)
  /\ \E c \in Calls : pc[c] = "up_write"

\* C28: when calls do not overlap, in every state spend.remaining is
\* not_to_exceed minus spend.total, and a successful updatePlan that provides a
\* budget leaves remaining at the new not_to_exceed and total as it was.
C28_RemainingIsLimitMinusTotal ==
  /\ plan.execution.spend.remaining_usdc
       = plan.spec.budget.not_to_exceed_usdc - plan.execution.spend.total_usdc
  /\ \A c \in Calls :
       (/\ Done(c, "updatePlan")
        /\ res[c].kind = "ok"
        /\ arg[c].input[1].budget # None)
       => /\ plan.execution.spend.remaining_usdc
               = arg[c].input[1].budget[1].not_to_exceed_usdc
          /\ plan.execution.spend.total_usdc = snap[c][1].execution.spend.total_usdc

\* C29: when calls do not overlap, a plan whose status is draft has no
\* receipt row and a spend.total of zero.
C29_DraftHasNoReceipts ==
  plan.status = "draft" =>
    /\ receipts = << >>
    /\ plan.execution.spend.total_usdc = 0

\* C30: when calls do not overlap, the step_id of every receipt row is the id
\* of a step of the plan's spec.steps.
C30_ReceiptStepExists ==
  \A i \in DOMAIN receipts :
    \E k \in DOMAIN plan.spec.steps : plan.spec.steps[k].id = receipts[i].step_id

(***************************************************************************)
(* createReceipt with amounts of either sign, one call at a time.  The     *)
(* amount of the payment tool is paymentResponse.value or '0'; the type    *)
(* ReceiptInput takes any string.                                          *)
(***************************************************************************)
SignedReceiptInputs ==
  { RI("s1", UrlA, 0, None), RI("s1", UrlA, -1, None),
    RI("s2", UrlA, 1, Some("r1")), RI("s2", UrlA, 0, Some("r2")),
    RI("s1", UrlA, 2, None) }

SignedStep(c) ==
  \/ \E u \in Users : Approve_Get(c, u)
  \/ Approve_Write(c)
  \/ \E u \in Users, r \in SignedReceiptInputs : CreateReceipt_Get(c, u, r)
  \/ CreateReceipt_Lookup(c)
  \/ CreateReceipt_Insert(c)
  \/ CreateReceipt_UpdatePlanSpend(c)
  \/ CheckPlanCompletion(c)
  \/ AutoComplete_Receipts(c)
  \/ AutoComplete_Write(c)
  \/ Return(c)

SignedNext == \E c \in SeqCalls : SignedStep(c)

SignedSpec == Init /\ [][SignedNext]_vars

\* C31: every stored receipt has an amount above zero, and a createReceipt
\* call whose amount is zero or negative ends in an error, stores no receipt
\* and leaves the spend as it was.
C31_AmountsArePositive ==
  /\ \A i \in DOMAIN receipts : receipts[i].amount > 0
  /\ \A c \in SeqCalls :
       (Done(c, "createReceipt") /\ arg[c].input[1].amount <= 0)
         => /\ res[c].kind # "ok"
            /\ loc[c].row = None
            /\ snap[c] # None => plan.execution.spend = snap[c][1].execution.spend

\* C32: when calls do not overlap, a createReceipt call that stored a receipt
\* and wrote the spend leaves execution.active_step_id and execution.progress
\* as they were when the call read the plan.
C32_SpendWriteKeepsExecution ==
  \A c \in SeqCalls :
    (Done(c, "createReceipt") /\ res[c].kind = "ok" /\ loc[c].spent)
      => /\ plan.execution.active_step_id = snap[c][1].execution.active_step_id
         /\ plan.execution.progress = snap[c][1].execution.progress

\* C33: when calls do not overlap, a createReceipt call that read a running
\* plan whose steps all had a receipt already, that returns a receipt and in
\* which no side effect failed, leaves the plan completed.
C33_CompletionCatchesUp ==
  \A c \in SeqCalls :
    (/\ Done(c, "createReceipt")
     /\ res[c].kind = "ok"
     /\ ~loc[c].failed
     /\ snap[c][1].status = "running"
     /\ AllStepsHaveReceipts(snap[c][1],
          {receipts[i].step_id :
             i \in {j \in DOMAIN receipts : loc[c].row # Some(receipts[j])}}))
      => plan.status = "completed"

(***************************************************************************)
(* autoCompletePlan alone, called again and again and by two callers at    *)
(* once, on the plans the service functions leave behind                   *)
(***************************************************************************)
CompletionRow1 ==
  [id |-> 1, step_id |-> "s1", url |-> UrlA, amount |-> 1,
   payment_reference |-> Some("r1")]
CompletionRow2 ==
  [id |-> 2, step_id |-> "s2", url |-> UrlA, amount |-> 1,
   payment_reference |-> None]

\* The plan as createPlan stores it, as approveAndStartPlan leaves it, after
\* one receipt and after the receipt of the last step when the completion
\* that followed it failed; then the same plans completed and canceled.
CompletionStates ==
  LET draft == CreatePlan(Owner, PlanInput1)
      running == ApproveRow(draft, draft, Owner, 1)
      one == [running EXCEPT !.execution = SpendExecution(1, 2)]
      all == [running EXCEPT !.execution = SpendExecution(2, 1)]
      St(p, rows, t) == [plan |-> p, receipts |-> rows, clock |-> t]
  IN { St(draft, <<>>, 0),
       St(running, <<>>, 1),
       St(one, <<CompletionRow1>>, 1),
       St(all, <<CompletionRow1, CompletionRow2>>, 1),
       St([all EXCEPT !.status = "completed"], <<CompletionRow1, CompletionRow2>>, 1),
       St([one EXCEPT !.status = "canceled"], <<CompletionRow1>>, 1),
       St([all EXCEPT !.status = "canceled"], <<CompletionRow1, CompletionRow2>>, 1) }

CompletionInit ==
  /\ \E s \in CompletionStates :
       /\ plan = s.plan
       /\ receipts = s.receipts
       /\ clock = s.clock
  /\ started = 0
  /\ pc = [c \in Calls |-> "idle"]
  /\ op = [c \in Calls |-> ""]
  /\ arg = [c \in Calls |-> NoArg]
  /\ snap = [c \in Calls |-> None]
  /\ loc = [c \in Calls |-> NoLoc]
  /\ res = [c \in Calls |-> NoRes]

CompletionStep(c) ==
  \/ AutoComplete_Get(c)
  \/ AutoComplete_Receipts(c)
  \/ AutoComplete_Write(c)
  \/ Return(c)

CompletionNext == \E c \in Calls : CompletionStep(c)

CompletionSpec == CompletionInit /\ [][CompletionNext]_vars

\* C34: no step of autoCompletePlan changes the receipts; none changes the
\* plan while its status is neither running nor paused or while a step has no
\* receipt; a step that changes the plan sets its status to completed and
\* nothing else.  A call that read a running plan whose steps all have a
\* receipt ends with that plan completed, as its result, however many calls
\* came before it or run beside it; any other call ends with null.
C34_AutoCompleteIdempotent ==
  [][\A c \in Calls :
       (op'[c] = "autoCompletePlan" /\ pc'[c] # pc[c])
         => /\ receipts' = receipts
            /\ plan' \in {plan, [plan EXCEPT !.status = "completed"]}
            /\ plan.status \notin {"running", "paused"} => plan' = plan
            /\ ~AllStepsHaveReceipts(plan, ReceiptStepIds) => plan' = plan
            /\ pc'[c] = "done" =>
                 IF /\ loc'[c].acPlan[1].status \in {"running", "paused"}
                    /\ AllStepsHaveReceipts(loc'[c].acPlan[1], ReceiptStepIds)
                   THEN /\ plan' = [loc'[c].acPlan[1] EXCEPT !.status = "completed"]
                        /\ res'[c].val = Some(plan')
                 ELSE plan' = plan /\ res'[c].val = None]_vars

\* C34 witness: a call has completed the plan it read running while a second
\* call, which read it running too, is about to write.
C34_Witness ==
  \E c, d \in Calls :
    /\ c # d
    /\ Done(c, "autoCompletePlan")
    /\ res[c].val = Some(plan)
    /\ plan.status = "completed"
    /\ op[d] = "autoCompletePlan"
    /\ pc[d] = "ac_write"
    /\ loc[d].acPlan[1].status = "running"

\* C35: no step of cancelPlan changes a receipt, and a step of cancelPlan that
\* changes the plan sets its status to canceled and leaves spec, plan_hash,
\* integrity, execution and every other column as they are in the store; a
\* call that ends in an error has changed nothing.
C35_CancelChangesOnlyStatus ==
  [][\A c \in Calls :
       (op'[c] = "cancelPlan" /\ pc'[c] # pc[c])
         => /\ receipts' = receipts
            /\ plan' \in {plan, [plan EXCEPT !.status = "canceled"]}
            /\ res'[c].kind \notin {"", "ok"} => plan' = plan
            /\ (pc'[c] = "done" /\ res'[c].kind = "ok")
                 => /\ plan'.status = "canceled"
                    /\ res'[c].val = Some(plan')]_vars

\* C35 witness: cancelPlan has canceled a plan with a receipt and a spend that
\* another call wrote after cancelPlan had read the plan.
C35_Witness ==
  \E c \in Calls :
    /\ Done(c, "cancelPlan")
    /\ res[c].kind = "ok"
    /\ plan.status = "canceled"
    /\ receipts # <<>>
    /\ plan.execution.spend.total_usdc > 0
    /\ plan.execution # snap[c][1].execution

\* C36: when calls do not overlap, a createReceipt call that read a plan whose
\* status is canceled or completed stores no new receipt and leaves the spend
\* as it was.
C36_NoReceiptAfterTerminal ==
  \A c \in SeqCalls :
    (/\ Done(c, "createReceipt")
     /\ snap[c] # None
     /\ snap[c][1].status \in {"canceled", "completed"})
      => /\ loc[c].row = None
         /\ plan.execution.spend = snap[c][1].execution.spend

\* C37: the write of the spend by a createReceipt call never stores a
\* spend.total below the one it replaces, however the calls overlap.
C37_TotalNeverDecreases ==
  [][\A c \in Calls :
       (op[c] = "createReceipt" /\ pc[c] = "cr_spend" /\ pc'[c] # "cr_spend")
         => plan'.execution.spend.total_usdc >= plan.execution.spend.total_usdc]_vars

\* C38: once the plan is approved, its spend.total is at most its
\* not_to_exceed, in every state and however the createReceipt calls overlap
\* (every amount submitted is above zero).
C38_TotalWithinLimit ==
  plan.status # "draft" =>
    plan.execution.spend.total_usdc <= plan.spec.budget.not_to_exceed_usdc

\* C39: the status stored is draft, running, completed or canceled in every
\* state, however the calls of createPlan, updatePlan, approveAndStartPlan,
\* cancelPlan, createReceipt and autoCompletePlan overlap: approved, paused and
\* failed are never stored.
C39_OnlyFourStatuses ==
  plan.status \in {"draft", "running", "completed", "canceled"}

\* C39 witness: the plan has been approved, has its two receipts and has been
\* completed, and a cancelPlan call that read it running is about to write.
C39_Witness ==
  /\ plan.status = "completed"
  /\ plan.integrity.approved_at # None
  /\ Len(receipts) = 2
  /\ \E c \in Calls : op[c] = "cancelPlan" /\ pc[c] = "ca_write"

(***************************************************************************)
(* The payment tool (mcp.ts, ToolName.PAY) with planId and stepId, one     *)
(* call at a time                                                          *)
(***************************************************************************)
\* The arguments of the tool and what the payment settles: resourceUrl,
\* stepId, paymentResponse.value and paymentResponse.transactionHash.
PayInputs ==
  { RI("s1", UrlA, 1, Some("r1")), RI("s2", UrlA, 1, Some("r2")),
    RI("s1", UrlA, 3, Some("r1")), RI("s1", UrlX, 1, Some("r3")) }

ToolError == [kind |-> "isError", val |-> None]

\* The response: receiptRecorded is true or left out; logged is what the tool
\* has logged about the receipt ("" when it did not try to record one).
ToolResponse(recorded, logged) ==
  [kind |-> "response",
   val |-> Some([receiptRecorded |-> recorded, logged |-> logged])]

\* getPlan and the check of the status before the payment (lines 1335-1360):
\* an error of getPlan is logged and the payment goes on.
Pay_Get(c, u, r) ==
  /\ CanStart(c)
  /\ RoomFor(r)
  /\ Begin(c, "pay", u, Some(r))
  /\ snap' = [snap EXCEPT ![c] = GetPlan(u)]
  /\ IF GetPlan(u) # None /\ plan.status # "running" /\ plan.status # "paused"
       THEN Finish(c, ToolError)
     ELSE Goto(c, "pay_make")
  /\ UNCHANGED <<plan, receipts, clock, loc>>

\* makePayment (lines 1362-1366): the payment is settled, the resource asked
\* for no payment (no paymentResponse, no receipt: lines 1378, 1437), or the
\* request failed (lines 1444-1446).
Pay_Make(c, outcome) ==
  /\ At(c, "pay_make")
  /\ IF outcome = "settled" THEN Goto(c, "pay_receipt")
     ELSE IF outcome = "free" THEN Finish(c, ToolResponse(None, ""))
     ELSE Finish(c, ToolError)
  /\ UNCHANGED <<started, plan, receipts, clock, op, arg, snap, loc>>

\* The receipt input built from the payment (lines 1385-1407) and the first
\* step of createReceipt, its getPlan (receiptService.ts 27).
Pay_CreateReceipt(c) ==
  /\ At(c, "pay_receipt")
  /\ LET a == arg[c].input[1]
         r == RI(a.step_id, a.url, ToFixed6(ParseFloat(a.amount)),
                 a.payment_reference)
     IN /\ arg' = [arg EXCEPT ![c].input = Some(r)]
        /\ snap' = [snap EXCEPT ![c] = GetPlan(arg[c].user)]
        /\ IF GetPlan(arg[c].user) = None
             THEN Finish(c, Err("PlanNotFound"))
           ELSE Goto(c, "cr_lookup")
  /\ UNCHANGED <<started, plan, receipts, clock, op, loc>>

\* createReceipt has returned or thrown: the error is caught and logged, and
\* the response is built (lines 1409-1443).
Pay_Respond(c) ==
  /\ pc[c] = "done"
  /\ op[c] = "pay"
  /\ res[c].kind \notin {"response", "isError"}
  /\ res' = [res EXCEPT ![c] = ToolResponse(Some(TRUE), res[c].kind)]
  /\ UNCHANGED <<started, plan, receipts, clock, pc, op, arg, snap, loc>>

\* The caller of the tool takes its response; the caller of a service
\* function, its result.
Pay_Return(c) ==
  /\ op[c] = "pay" => res[c].kind \in {"response", "isError"}
  /\ Return(c)

PayStep(c) ==
  \/ \E u \in Users : Approve_Get(c, u)
  \/ Approve_Write(c)
  \/ \E u \in Users, r \in PayInputs : Pay_Get(c, u, r)
  \/ \E outcome \in {"settled", "free", "error"} : Pay_Make(c, outcome)
  \/ Pay_CreateReceipt(c)
  \/ CreateReceipt_Lookup(c)
  \/ CreateReceipt_Insert(c)
  \/ CreateReceipt_UpdatePlanSpend(c)
  \/ CheckPlanCompletion(c)
  \/ AutoComplete_Receipts(c)
  \/ AutoComplete_Write(c)
  \/ Pay_Respond(c)
  \/ Pay_Return(c)

PayNext == \E c \in SeqCalls : PayStep(c)

PaySpec == Init /\ [][PayNext]_vars

\* C40: a response of the payment tool that reports receiptRecorded true
\* follows a createReceipt call that returned a receipt, and a receipt of the
\* step it was called for is stored.
C40_ReceiptRecordedIsTrue ==
  \A c \in SeqCalls :
    (/\ Done(c, "pay")
     /\ res[c].kind = "response"
     /\ res[c].val[1].receiptRecorded = Some(TRUE))
      => /\ res[c].val[1].logged = "ok"
         /\ \E i \in DOMAIN receipts :
              receipts[i].step_id = arg[c].input[1].step_id

====
